---- MODULE Spec2Model ----
\* Offline synchronization hub (package offline): the cached current snapshot,
\* the field-update operations and the synchronization pass SyncListData,
\* together with the snapshot store, the remote list client and the event sink
\* they talk to.
\* Script fetch binding (gojaFetch): the fetch goroutines, the channel that
\* bounds how many of them run a request, and the promises they settle.
EXTENDS Integers, Sequences, FiniteSets, TLC

\* ---------------------------------------------------------------- bounds
\* Number of Hub operations invoked in one behaviour.
MaxCalls == 2

\* The goroutines that call into the Hub: two request handlers, either of
\* which may also be the one that triggers the synchronization pass.
Procs == {1, 2}

\* ---------------------------------------------------------------- values
\* A nil pointer is the empty tuple, a non-nil pointer to x is <<x>>.
\* An error is a string; a nil error is NoErr.
NoErr == "nil"
Some(x) == <<x>>
None == <<>>

\* Media ids a snapshot's rows can have, in row order.
SnapshotMediaIds == <<100, 200, 400>>

\* Date strings. The characters of a timestamp are kept as its fields:
\* <<year, month, day, hour, minute, second>>; the empty string is <<>>, and a
\* string that holds a date but no time ("2022-05-01") is <<year, month, day>>.
EmptyString == <<>>

\* Scores on the local scale.
ScoreInputs == {0, 3, 10}

\* ListData: the fields a user edits.
MkListData(progress, status, score, startedAt, completedAt) ==
    [Progress |-> progress, Status |-> status, Score |-> score,
     StartedAt |-> startedAt, CompletedAt |-> completedAt]

\* ---------------------------------------------------------------- entry codec
\* AnimeEntry.Marshal / MangaEntry.Marshal: the stored bytes carry the kind of
\* the entry and its ListData.
Marshal(entry) == <<entry.kind, entry.ListData>>

\* Decoding of the stored bytes; nil when they do not hold an entry.
Unmarshal(value) ==
    IF value[1] \in {"anime", "manga"}
    THEN Some([kind |-> value[1], ListData |-> value[2]])
    ELSE None

\* SnapshotMediaEntry.GetAnimeEntry: nil unless the row is an anime row that decodes.
GetAnimeEntry(se) ==
    IF se.Type = "anime" /\ se.Value[1] = "anime" THEN Unmarshal(se.Value) ELSE None

\* SnapshotMediaEntry.GetMangaEntry: nil unless the row is a manga row that decodes.
GetMangaEntry(se) ==
    IF se.Type = "manga" /\ se.Value[1] = "manga" THEN Unmarshal(se.Value) ELSE None

\* ---------------------------------------------------------------- state
VARIABLES
    isOffline,        \* Hub.isOffline, fixed at construction
    mu,               \* Hub.mu: 0 when free, else the goroutine holding it
    currentSnapshot,  \* Hub.currentSnapshot: None or Some(snapshot)
    snapshots,        \* store: snapshot rows, by id
    entries,          \* store: snapshot entry rows, by <<snapshot id, media id>>
    now,              \* the store's clock, read when a row is written
    pc,               \* where each goroutine is
    frame,            \* each goroutine's locals
    calls,            \* every invocation so far, with its result once it returned
    log,              \* calls made to the remote client, the store's delete,
                      \* the refresh callback and the event sink, in order
    fetches,          \* script fetch binding: how many fetches are at each stage
    fetchSemaphore,   \* number of elements in the channel fetchSemaphore
    objMu,            \* objMu is locked
    resolves,         \* calls of a promise's resolve so far
    rejects           \* calls of a promise's reject so far

hubVars == <<isOffline, mu, currentSnapshot, snapshots, entries, now, pc, frame, calls, log>>
fetchVars == <<fetches, fetchSemaphore, objMu, resolves, rejects>>
vars == <<hubVars, fetchVars>>

\* ---------------------------------------------------------------- fetch stages
\* Capacity of the channel fetchSemaphore.
FetchSlots == 10

\* Where a fetch is: its goroutine waits to send on fetchSemaphore, called
\* without or with a headers option ("acquire"); reads the method option
\* ("method"); is at objMu.Lock() before it reads the headers ("headers");
\* reads the body option, builds and sends the request and reads the response
\* ("request"); is at objMu.Lock() before it builds the response object and
\* resolves ("respond"); or has exited, or never started a goroutine ("done").
Stages ==
    {"acquire", "acquire_headers", "method", "method_headers", "headers", "request",
     "respond", "done"}

\* No script has called fetch.
NoFetches ==
    /\ fetches = [s \in Stages |-> 0]
    /\ fetchSemaphore = 0
    /\ objMu = FALSE
    /\ resolves = 0
    /\ rejects = 0

\* ---------------------------------------------------------------- snapshot store
\* Ids of the snapshot rows the store holds.
SnapshotIds == DOMAIN snapshots

\* database.HasSnapshots
HasSnapshots == SnapshotIds # {}

\* database.GetLatestSnapshot: the row with the greatest id, nil when there is none.
offlineDb_GetLatestSnapshot ==
    IF SnapshotIds = {} THEN None
    ELSE Some(snapshots[CHOOSE i \in SnapshotIds : \A j \in SnapshotIds : j <= i])

\* database.GetSnapshotMediaEntry: the row of one media id in one snapshot.
GetSnapshotMediaEntry(mediaId, snapshotDbId) ==
    IF <<snapshotDbId, mediaId>> \in DOMAIN entries
    THEN Some(entries[<<snapshotDbId, mediaId>>])
    ELSE None

\* database.GetSnapshotMediaEntries: every row of one snapshot, in row order.
GetSnapshotMediaEntries(snapshotId) ==
    LET present == SelectSeq(SnapshotMediaIds,
                             LAMBDA m : <<snapshotId, m>> \in DOMAIN entries)
    IN [i \in 1..Len(present) |-> entries[<<snapshotId, present[i]>>]]

\* database.UpdateSnapshotMediaEntryT: saves the row and stamps UpdatedAt with
\* the time of the write; a row that is gone is not written.
UpdateSnapshotMediaEntryT(se) ==
    LET key == <<se.SnapshotItemId, se.MediaId>>
    IN /\ now' = now + 1
       /\ entries' = IF key \in DOMAIN entries
                     THEN [entries EXCEPT ![key] = [se EXCEPT !.UpdatedAt = now + 1]]
                     ELSE entries

\* database.DeleteSnapshot: removes the snapshot row and, with it, its entry
\* rows. When the store reports an error nothing is removed.
DeleteSnapshot(snapshotId, fails) ==
    IF fails
    THEN UNCHANGED <<snapshots, entries>>
    ELSE /\ snapshots' = [i \in SnapshotIds \ {snapshotId} |-> snapshots[i]]
         /\ entries' = [k \in {e \in DOMAIN entries : e[1] # snapshotId} |-> entries[k]]

\* Hub.GetLatestSnapshot: the latest snapshot row with its entries, as the Hub
\* caches it; nil (an error) when the store holds no snapshot.
GetLatestSnapshot ==
    IF SnapshotIds = {} THEN None
    ELSE LET item == offlineDb_GetLatestSnapshot[1]
             rows == GetSnapshotMediaEntries(item.ID)
         IN Some([DbId |-> item.ID, Used |-> item.Used, Synced |-> item.Synced,
                  Entries |-> rows])

\* ---------------------------------------------------------------- construction
\* The rows of a captured snapshot: CreatedAt = 1 for every row, UpdatedAt = 1
\* for a row not edited since and 2 for a row edited once.
CapturedAt == 1

InitRow(mediaId, type, ld, edited) ==
    [SnapshotItemId |-> 1, MediaId |-> mediaId, Type |-> type,
     Value |-> Marshal([kind |-> type, ListData |-> ld]),
     CreatedAt |-> CapturedAt,
     UpdatedAt |-> IF edited THEN CapturedAt + 1 ELSE CapturedAt]

\* The stores a Hub is built over. Online: no snapshot; a snapshot in use,
\* with each row edited or not and each score of ScoreInputs; a snapshot never
\* used; a snapshot marked synced, used or not. Offline: a snapshot in use.
Store(offline, flags, edited, score) ==
    [isOffline |-> offline, flags |-> flags, edited |-> edited, score |-> score]

InitialStores ==
    {Store(FALSE, <<>>, <<FALSE, FALSE>>, 0)}
    \cup {Store(FALSE, <<TRUE, FALSE>>, <<e1, e2>>, s) :
             e1 \in BOOLEAN, e2 \in BOOLEAN, s \in ScoreInputs}
    \cup {Store(FALSE, <<FALSE, FALSE>>, <<TRUE, TRUE>>, 3),
          Store(FALSE, <<TRUE, TRUE>>, <<TRUE, TRUE>>, 3),
          Store(FALSE, <<FALSE, TRUE>>, <<TRUE, TRUE>>, 3)}
    \cup {Store(TRUE, <<TRUE, FALSE>>, <<e1, FALSE>>, 3) : e1 \in BOOLEAN}

NoFrame ==
    [call |-> 0, snapshotItem |-> None, snapshotEntries |-> <<>>, list |-> <<>>, idx |-> 0,
     errI |-> NoErr, err |-> NoErr, snapshotEntry |-> None]

\* NewHub: the cache is empty and the lock free; an offline Hub is only built
\* over a store that holds a snapshot.
Init ==
    /\ NoFetches
    /\ mu = 0
    /\ currentSnapshot = None
    /\ now = CapturedAt + 1
    /\ \E k \in InitialStores :
          /\ isOffline = k.isOffline
          /\ IF k.flags = <<>>
             THEN snapshots = << >> /\ entries = << >>
             ELSE /\ snapshots = (1 :> [ID |-> 1, Used |-> k.flags[1], Synced |-> k.flags[2]])
                  /\ entries =
                       (<<1, 100>> :> InitRow(100, "anime",
                           MkListData(1, "CURRENT", k.score, <<2022, 5, 1, 0, 0, 0>>,
                                      <<2022, 5, 1>>), k.edited[1]))
                       @@ (<<1, 200>> :> InitRow(200, "manga",
                           MkListData(2, "PAUSED", 7, EmptyString,
                                      <<2021, 12, 31, 23, 59, 59>>), k.edited[2]))
    /\ pc = [p \in Procs |-> "idle"]
    /\ frame = [p \in Procs |-> NoFrame]
    /\ calls = <<>>
    /\ log = <<>>

\* ---------------------------------------------------------------- invocations
NoPatch == [status |-> None, score |-> None, progress |-> None,
            startDate |-> None, endDate |-> None]

\* The record of one invocation; res is "pending" until it returns.
NewCall(op, p, mediaId, patch, t) ==
    [op |-> op, proc |-> p, mediaId |-> mediaId, patch |-> patch, t |-> t,
     during |-> {i \in 1..Len(calls) : calls[i].res = "pending"},
     res |-> "pending"]

\* Goroutine p is free to invoke an operation.
CanInvoke(p) ==
    /\ pc[p] = "idle"
    /\ Len(calls) < MaxCalls

\* The operation of goroutine p returns res.
Return(p, callsNow, res) ==
    /\ calls' = [callsNow EXCEPT ![frame[p].call].res = res]
    /\ pc' = [pc EXCEPT ![p] = "idle"]
    /\ frame' = [frame EXCEPT ![p] = NoFrame]

\* One line of the log of outside effects.
LogLine(kind, call, mediaId, args, ok) ==
    [kind |-> kind, call |-> call, mediaId |-> mediaId, args |-> args, ok |-> ok]

\* ---------------------------------------------------------------- SyncListData
\* time.Parse(time.RFC3339, s) succeeds: s holds a date and a time of day,
\* each field in its range.
DaysIn(year, month) ==
    IF month \in {4, 6, 9, 11} THEN 30
    ELSE IF month # 2 THEN 31
    ELSE IF (year % 4 = 0 /\ year % 100 # 0) \/ year % 400 = 0 THEN 29 ELSE 28

ParsesRFC3339(s) ==
    /\ Len(s) = 6
    /\ s[2] \in 1..12
    /\ s[3] \in 1..DaysIn(s[1], s[2])
    /\ s[4] \in 0..23 /\ s[5] \in 0..59 /\ s[6] \in 0..59

\* The error of time.Parse is not looked at: a string that does not parse gives
\* the date of the zero time.Time.
FuzzyDate_ParseErrIgnored(s) ==
    IF s = EmptyString THEN None
    ELSE IF ParsesRFC3339(s) THEN Some(<<s[1], s[2], s[3]>>)
    ELSE Some(<<1, 1, 1>>)

\* The FuzzyDateInput built from a date string: nil for the empty string and
\* for a string that does not parse, else (year, month, day).
FuzzyDate(s) ==
    IF s # EmptyString /\ ParsesRFC3339(s) THEN Some(<<s[1], s[2], s[3]>>) ELSE None

\* The score sent as it is stored, on the local scale.
RemoteScore_Unconverted(score) == score

\* The score sent to the remote service.
RemoteScore(score) == score * 10

\* The test of the two timestamps is inverted: the unedited rows are kept.
UpdatedSnapshotEntries_Unedited(snapshotEntries) ==
    SelectSeq(snapshotEntries, LAMBDA se : se.CreatedAt = se.UpdatedAt)

\* Every row is pushed, edited or not.
UpdatedSnapshotEntries_All(snapshotEntries) == snapshotEntries

\* The rows the pass pushes: those whose two timestamps differ.
UpdatedSnapshotEntries(snapshotEntries) ==
    SelectSeq(snapshotEntries, LAMBDA se : ~(se.CreatedAt = se.UpdatedAt))

\* The typed entry of a row, by the row's Type; nil for any other Type.
EntryByType(se) ==
    IF se.Type = "anime" THEN GetAnimeEntry(se)
    ELSE IF se.Type = "manga" THEN GetMangaEntry(se)
    ELSE None

\* The arguments of UpdateMediaListEntry after the media id: status, score,
\* progress, startDate, endDate.
RemoteArgs(listData) ==
    <<listData.Status, RemoteScore(listData.Score), listData.Progress,
      FuzzyDate(listData.StartedAt), FuzzyDate(listData.CompletedAt)>>

\* The converted listData is saved back into the row.
PushLeavesStore_Saved(se, listData) ==
    UpdateSnapshotMediaEntryT(
        [se EXCEPT !.Value = Marshal([kind |-> se.Type,
                                      ListData |-> [listData EXCEPT !.Score = RemoteScore(@)]])])

\* What a turn of the loop does to the store: the converted listData is a
\* decoded copy of the row, and no row is written.
PushLeavesStore(se, listData) == UNCHANGED <<entries, now>>

\* The events are published before the refresh callback has run.
SuccessEffects_EventsFirst(c, id, deleted) ==
    <<LogLine("delete", c, id, <<>>, deleted),
      LogLine("RefreshedAnilistCollection", c, 0, <<>>, TRUE),
      LogLine("RefreshedAnilistMangaCollection", c, 0, <<>>, TRUE),
      LogLine("refresh", c, 0, <<>>, TRUE)>>

\* What the pass does once every push went through: DeleteSnapshot, the
\* refresh callback, then the two events.
SuccessEffects(c, id, deleted) ==
    <<LogLine("delete", c, id, <<>>, deleted),
      LogLine("refresh", c, 0, <<>>, TRUE),
      LogLine("RefreshedAnilistCollection", c, 0, <<>>, TRUE),
      LogLine("RefreshedAnilistMangaCollection", c, 0, <<>>, TRUE)>>

\* The error the remote client returns when the push of mediaId fails.
PushErr(mediaId) == "push failed " \o ToString(mediaId)

\* The error kept after one push.
ErrAfterPush(errI, mediaId, ok) == IF ok THEN NoErr ELSE PushErr(mediaId)

\* What the pass returns after the loop when errI is not nil.
ErrReturned(err, errI) == err

\* The offline flag is not looked at.
SyncDisabled_Never == FALSE

\* The pass does nothing when the Hub was built for offline mode.
SyncDisabled == isOffline

\* The Used flag of the snapshot is not looked at.
PreconditionErr_NoUsedCheck(item) ==
    IF item = None THEN "no snapshot found"
    ELSE IF item[1].Synced THEN "data already synced"
    ELSE NoErr

\* The checks of the latest snapshot row before the pass.
PreconditionErr(item) ==
    IF item = None THEN "no snapshot found"
    ELSE IF item[1].Synced THEN "data already synced"
    ELSE IF ~item[1].Used THEN "snapshot not used"
    ELSE NoErr

\* SyncListData is invoked. It takes no lock. In offline mode it returns nil
\* at once; otherwise it reads the latest snapshot row and checks it.
SyncStart(p) ==
    /\ CanInvoke(p)
    /\ LET c == Len(calls) + 1
           call == NewCall("SyncListData", p, 0, NoPatch, "")
           item == offlineDb_GetLatestSnapshot
       IN IF SyncDisabled
          THEN /\ calls' = Append(calls, [call EXCEPT !.res = NoErr])
               /\ UNCHANGED <<pc, frame>>
          ELSE IF PreconditionErr(item) # NoErr
          THEN /\ calls' = Append(calls, [call EXCEPT !.res = PreconditionErr(item)])
               /\ UNCHANGED <<pc, frame>>
          ELSE /\ calls' = Append(calls, call)
               /\ pc' = [pc EXCEPT ![p] = "sync_entries"]
               /\ frame' = [frame EXCEPT ![p] =
                               [NoFrame EXCEPT !.call = c, !.snapshotItem = item]]
    /\ UNCHANGED <<isOffline, mu, currentSnapshot, snapshots, entries, now, log>>
    /\ UNCHANGED fetchVars

\* The pass marks the snapshot it read as synced and saves it.
SyncLoadEntries_MarksSynced(p) ==
    /\ pc[p] = "sync_entries"
    /\ LET id == frame[p].snapshotItem[1].ID
           snapshotEntries == GetSnapshotMediaEntries(id)
           updated == UpdatedSnapshotEntries(snapshotEntries)
       IN /\ snapshots' = IF id \in SnapshotIds
                          THEN [snapshots EXCEPT ![id].Synced = TRUE]
                          ELSE snapshots
          /\ IF Len(updated) = 0
             THEN Return(p, calls, NoErr)
             ELSE /\ pc' = [pc EXCEPT ![p] = "sync_push"]
                  /\ frame' = [frame EXCEPT ![p].snapshotEntries = snapshotEntries,
                                            ![p].list = updated, ![p].idx = 1]
                  /\ UNCHANGED calls
    /\ UNCHANGED <<isOffline, mu, currentSnapshot, entries, now, log>>
    /\ UNCHANGED fetchVars

\* With no modified row the pass returns an error.
SyncLoadEntries_NoUpdatesErr(p) ==
    /\ pc[p] = "sync_entries"
    /\ LET snapshotEntries == GetSnapshotMediaEntries(frame[p].snapshotItem[1].ID)
           updated == UpdatedSnapshotEntries(snapshotEntries)
       IN IF Len(updated) = 0
          THEN Return(p, calls, "no updates")
          ELSE /\ pc' = [pc EXCEPT ![p] = "sync_push"]
               /\ frame' = [frame EXCEPT ![p].snapshotEntries = snapshotEntries,
                                         ![p].list = updated, ![p].idx = 1]
               /\ UNCHANGED calls
    /\ UNCHANGED <<isOffline, mu, currentSnapshot, snapshots, entries, now, log>>
    /\ UNCHANGED fetchVars

\* The pass does not return when no row is modified: it goes through its loop
\* over no row and on to what follows the loop.
SyncLoadEntries_NoEmptyCheck(p) ==
    /\ pc[p] = "sync_entries"
    /\ LET snapshotEntries == GetSnapshotMediaEntries(frame[p].snapshotItem[1].ID)
           updated == UpdatedSnapshotEntries(snapshotEntries)
       IN /\ pc' = [pc EXCEPT ![p] = "sync_push"]
          /\ frame' = [frame EXCEPT ![p].snapshotEntries = snapshotEntries,
                                    ![p].list = updated, ![p].idx = 1]
          /\ UNCHANGED calls
    /\ UNCHANGED <<isOffline, mu, currentSnapshot, snapshots, entries, now, log>>
    /\ UNCHANGED fetchVars

\* The pass reads the rows of the snapshot and keeps the modified ones; with
\* none it returns nil.
SyncLoadEntries(p) ==
    /\ pc[p] = "sync_entries"
    /\ LET snapshotEntries == GetSnapshotMediaEntries(frame[p].snapshotItem[1].ID)
           updated == UpdatedSnapshotEntries(snapshotEntries)
       IN IF Len(updated) = 0
          THEN Return(p, calls, NoErr)
          ELSE /\ pc' = [pc EXCEPT ![p] = "sync_push"]
               /\ frame' = [frame EXCEPT ![p].snapshotEntries = snapshotEntries,
                                         ![p].list = updated, ![p].idx = 1]
               /\ UNCHANGED calls
    /\ UNCHANGED <<isOffline, mu, currentSnapshot, snapshots, entries, now, log>>
    /\ UNCHANGED fetchVars

\* One turn of the loop: decode the row, convert score and dates, push it to
\* the remote client, keep the error of this push.
SyncPush(p) ==
    /\ pc[p] = "sync_push"
    /\ frame[p].idx <= Len(frame[p].list)
    /\ LET se == frame[p].list[frame[p].idx]
           entry == EntryByType(se)
       IN IF se.Type \in {"anime", "manga"} /\ entry = None
          THEN \* se.GetAnimeEntry().ListData on a nil entry: the goroutine panics
               /\ Return(p, calls, "panic")
               /\ UNCHANGED <<log, entries, now>>
          ELSE IF entry = None \/ entry[1].ListData = None
          THEN \* listData == nil: continue
               /\ frame' = [frame EXCEPT ![p].idx = @ + 1]
               /\ UNCHANGED <<pc, calls, log, entries, now>>
          ELSE \E ok \in BOOLEAN :
               LET listData == entry[1].ListData
               IN /\ log' = Append(log, LogLine("push", frame[p].call, se.MediaId,
                                                RemoteArgs(listData), ok))
                  /\ PushLeavesStore(se, listData)
                  /\ frame' = [frame EXCEPT ![p].idx = @ + 1,
                                            ![p].errI = ErrAfterPush(@, se.MediaId, ok)]
                  /\ UNCHANGED <<pc, calls>>
    /\ UNCHANGED <<isOffline, mu, currentSnapshot, snapshots>>
    /\ UNCHANGED fetchVars

\* The pass deletes the snapshot after the one it read: the snapshot it pushed
\* stays in the store.
SyncFinish_WrongSnapshot(p) ==
    /\ pc[p] = "sync_push"
    /\ frame[p].idx > Len(frame[p].list)
    /\ IF frame[p].errI # NoErr
       THEN /\ Return(p, calls, ErrReturned(frame[p].err, frame[p].errI))
            /\ UNCHANGED <<snapshots, entries, log>>
       ELSE \E fails \in BOOLEAN :
            LET c == frame[p].call
                id == frame[p].snapshotItem[1].ID
            IN /\ DeleteSnapshot(id + 1, fails)
               /\ log' = log \o SuccessEffects(c, id, ~fails)
               /\ Return(p, calls, NoErr)
    /\ UNCHANGED <<isOffline, mu, currentSnapshot, now>>
    /\ UNCHANGED fetchVars

\* The pass empties the cache when it has deleted the snapshot.
SyncFinish_ClearsCache(p) ==
    /\ pc[p] = "sync_push"
    /\ frame[p].idx > Len(frame[p].list)
    /\ IF frame[p].errI # NoErr
       THEN /\ Return(p, calls, ErrReturned(frame[p].err, frame[p].errI))
            /\ UNCHANGED <<snapshots, entries, log, currentSnapshot>>
       ELSE \E fails \in BOOLEAN :
            LET c == frame[p].call
                id == frame[p].snapshotItem[1].ID
            IN /\ DeleteSnapshot(id, fails)
               /\ currentSnapshot' = IF fails THEN currentSnapshot ELSE None
               /\ log' = log \o SuccessEffects(c, id, ~fails)
               /\ Return(p, calls, NoErr)
    /\ UNCHANGED <<isOffline, mu, now>>
    /\ UNCHANGED fetchVars

\* The error of DeleteSnapshot is returned, before the callback and the events.
SyncFinish_ReturnsDeleteErr(p) ==
    /\ pc[p] = "sync_push"
    /\ frame[p].idx > Len(frame[p].list)
    /\ IF frame[p].errI # NoErr
       THEN /\ Return(p, calls, ErrReturned(frame[p].err, frame[p].errI))
            /\ UNCHANGED <<snapshots, entries, log>>
       ELSE \E fails \in BOOLEAN :
            LET c == frame[p].call
                id == frame[p].snapshotItem[1].ID
            IN /\ DeleteSnapshot(id, fails)
               /\ IF fails
                  THEN /\ log' = Append(log, LogLine("delete", c, id, <<>>, FALSE))
                       /\ Return(p, calls, "delete failed")
                  ELSE /\ log' = log \o SuccessEffects(c, id, TRUE)
                       /\ Return(p, calls, NoErr)
    /\ UNCHANGED <<isOffline, mu, currentSnapshot, now>>
    /\ UNCHANGED fetchVars

\* After the loop: with an error kept the pass returns; otherwise it deletes
\* the snapshot (ignoring the store's error), calls the refresh callback,
\* publishes the two events and returns nil.
SyncFinish(p) ==
    /\ pc[p] = "sync_push"
    /\ frame[p].idx > Len(frame[p].list)
    /\ IF frame[p].errI # NoErr
       THEN /\ Return(p, calls, ErrReturned(frame[p].err, frame[p].errI))
            /\ UNCHANGED <<snapshots, entries, log>>
       ELSE \E fails \in BOOLEAN :
            LET c == frame[p].call
                id == frame[p].snapshotItem[1].ID
            IN /\ DeleteSnapshot(id, fails)
               /\ log' = log \o SuccessEffects(c, id, ~fails)
               /\ Return(p, calls, NoErr)
    /\ UNCHANGED <<isOffline, mu, currentSnapshot, now>>
    /\ UNCHANGED fetchVars

\* ---------------------------------------------------------------- field updates
\* The ListData is built anew from the two arguments; the other fields are lost.
SetProgressStatus_FreshListData(ld, progress, status) ==
    MkListData(progress, status, 0, EmptyString, EmptyString)

\* Only Progress is set.
SetProgressStatus_ProgressOnly(ld, progress, status) ==
    [ld EXCEPT !.Progress = progress]

\* UpdateAnimeListStatus / UpdateMangaListStatus: Progress and Status are set.
SetProgressStatus(ld, progress, status) ==
    [ld EXCEPT !.Progress = progress, !.Status = status]

\* The branch of endDate assigns StartedAt.
ApplyPatch_EndDateIntoStartedAt(ld, patch) ==
    [Progress |-> IF patch.progress # None THEN patch.progress[1] ELSE ld.Progress,
     Status |-> IF patch.status # None THEN patch.status[1] ELSE ld.Status,
     Score |-> IF patch.score # None THEN patch.score[1] ELSE ld.Score,
     StartedAt |-> IF patch.endDate # None THEN patch.endDate[1]
                   ELSE IF patch.startDate # None THEN patch.startDate[1] ELSE ld.StartedAt,
     CompletedAt |-> ld.CompletedAt]

\* UpdateEntryListData: each field that is given is set, the others are kept.
ApplyPatch(ld, patch) ==
    [Progress |-> IF patch.progress # None THEN patch.progress[1] ELSE ld.Progress,
     Status |-> IF patch.status # None THEN patch.status[1] ELSE ld.Status,
     Score |-> IF patch.score # None THEN patch.score[1] ELSE ld.Score,
     StartedAt |-> IF patch.startDate # None THEN patch.startDate[1] ELSE ld.StartedAt,
     CompletedAt |-> IF patch.endDate # None THEN patch.endDate[1] ELSE ld.CompletedAt]

UpdateOps == {"UpdateAnimeListStatus", "UpdateMangaListStatus", "UpdateEntryListData"}

\* The arguments of the two status operations, as a patch.
StatusPatch == [NoPatch EXCEPT !.progress = Some(5), !.status = Some("COMPLETED")]

\* Optional arguments of UpdateEntryListData: a score alone, and every field.
ScorePatch == [NoPatch EXCEPT !.score = Some(9)]
FullPatch ==
    [status |-> Some("DROPPED"), score |-> Some(4), progress |-> Some(8),
     startDate |-> Some(<<2023, 2, 28, 10, 30, 0>>),
     endDate |-> Some(<<2024, 2, 30, 0, 0, 0>>)]

Request(op, mediaId, patch, t) == [op |-> op, mediaId |-> mediaId, patch |-> patch, t |-> t]

\* The invocations of the locked operations: updates of a row of the right
\* type, of a row of the other type, of a media id the snapshot does not hold,
\* with a media type that is neither "anime" nor "manga", and the two reads.
Requests ==
    { Request("UpdateAnimeListStatus", 100, StatusPatch, ""),
      Request("UpdateAnimeListStatus", 200, StatusPatch, ""),
      Request("UpdateMangaListStatus", 200, StatusPatch, ""),
      Request("UpdateMangaListStatus", 300, StatusPatch, ""),
      Request("UpdateEntryListData", 100, ScorePatch, "anime"),
      Request("UpdateEntryListData", 200, FullPatch, "manga"),
      Request("UpdateEntryListData", 100, ScorePatch, "other"),
      Request("GetCurrentSnapshot", 0, NoPatch, ""),
      Request("RetrieveCurrentSnapshot", 0, NoPatch, "") }

\* A locked operation is invoked: the goroutine waits for h.mu.
Call(p) ==
    /\ CanInvoke(p)
    /\ \E r \in Requests :
          calls' = Append(calls, NewCall(r.op, p, r.mediaId, r.patch, r.t))
    /\ pc' = [pc EXCEPT ![p] = "lock"]
    /\ frame' = [frame EXCEPT ![p].call = Len(calls) + 1]
    /\ UNCHANGED <<isOffline, mu, currentSnapshot, snapshots, entries, now, log>>
    /\ UNCHANGED fetchVars

\* The first statement after h.mu.Lock(), by operation and cache.
AfterLock(op) ==
    IF op = "GetCurrentSnapshot" THEN "get"
    ELSE IF op = "RetrieveCurrentSnapshot" THEN "retrieve"
    ELSE IF currentSnapshot = None THEN "upd_load"
    ELSE "upd_entry"

\* h.mu.Lock()
Lock(p) ==
    /\ pc[p] = "lock"
    /\ mu = 0
    /\ mu' = p
    /\ pc' = [pc EXCEPT ![p] = AfterLock(calls[frame[p].call].op)]
    /\ UNCHANGED <<isOffline, currentSnapshot, snapshots, entries, now, frame, calls, log>>
    /\ UNCHANGED fetchVars

\* The operation returns res with h.mu still locked.
UnlockReturn_KeepsLock(p, res) ==
    /\ mu' = mu
    /\ Return(p, calls, res)

\* The deferred h.mu.Unlock() together with the return of res.
UnlockReturn(p, res) ==
    /\ mu' = 0
    /\ Return(p, calls, res)

\* GetCurrentSnapshot loads the latest snapshot when the cache is empty.
GetCurrentSnapshot_LoadsOnMiss(p) ==
    /\ pc[p] = "get"
    /\ IF currentSnapshot = None /\ GetLatestSnapshot # None
       THEN /\ currentSnapshot' = GetLatestSnapshot
            /\ UnlockReturn(p, NoErr)
       ELSE /\ UnlockReturn(p, IF currentSnapshot = None THEN "not found" ELSE NoErr)
            /\ UNCHANGED currentSnapshot
    /\ UNCHANGED <<isOffline, snapshots, entries, now, log>>
    /\ UNCHANGED fetchVars

\* GetCurrentSnapshot: the cache as it is.
GetCurrentSnapshot(p) ==
    /\ pc[p] = "get"
    /\ UnlockReturn(p, IF currentSnapshot = None THEN "not found" ELSE NoErr)
    /\ UNCHANGED <<isOffline, currentSnapshot, snapshots, entries, now, log>>
    /\ UNCHANGED fetchVars

\* RetrieveCurrentSnapshot reads the store on every call.
RetrieveCurrentSnapshot_AlwaysReloads(p) ==
    /\ pc[p] = "retrieve"
    /\ LET ret == GetLatestSnapshot
       IN IF ret = None
          THEN /\ UnlockReturn(p, "not found")
               /\ UNCHANGED currentSnapshot
          ELSE /\ currentSnapshot' = ret
               /\ UnlockReturn(p, NoErr)
    /\ UNCHANGED <<isOffline, snapshots, entries, now, log>>
    /\ UNCHANGED fetchVars

\* RetrieveCurrentSnapshot: the cache, loaded from the store when empty.
RetrieveCurrentSnapshot(p) ==
    /\ pc[p] = "retrieve"
    /\ IF currentSnapshot = None
       THEN LET ret == GetLatestSnapshot
            IN IF ret = None
               THEN /\ UnlockReturn(p, "not found")
                    /\ UNCHANGED currentSnapshot
               ELSE /\ currentSnapshot' = ret
                    /\ UnlockReturn(p, NoErr)
       ELSE /\ UnlockReturn(p, NoErr)
            /\ UNCHANGED currentSnapshot
    /\ UNCHANGED <<isOffline, snapshots, entries, now, log>>
    /\ UNCHANGED fetchVars

\* The error of the store is returned as it is.
UpdateLoad_PropagatesErr(p) ==
    /\ pc[p] = "upd_load"
    /\ LET ret == GetLatestSnapshot
       IN IF ret = None
          THEN /\ UnlockReturn(p, "record not found")
               /\ UNCHANGED currentSnapshot
          ELSE /\ currentSnapshot' = ret
               /\ pc' = [pc EXCEPT ![p] = "upd_entry"]
               /\ UNCHANGED <<mu, frame, calls>>
    /\ UNCHANGED <<isOffline, snapshots, entries, now, log>>
    /\ UNCHANGED fetchVars

\* A field update with an empty cache loads the latest snapshot first.
UpdateLoad(p) ==
    /\ pc[p] = "upd_load"
    /\ LET ret == GetLatestSnapshot
       IN IF ret = None
          THEN /\ UnlockReturn(p, "snapshot not found")
               /\ UNCHANGED currentSnapshot
          ELSE /\ currentSnapshot' = ret
               /\ pc' = [pc EXCEPT ![p] = "upd_entry"]
               /\ UNCHANGED <<mu, frame, calls>>
    /\ UNCHANGED <<isOffline, snapshots, entries, now, log>>
    /\ UNCHANGED fetchVars

\* The row is decoded whatever its type.
TypedEntry_IgnoresType(op, t, se) == Unmarshal(se.Value)

\* The typed entry an update operation works on; nil when the row is of
\* another type. UpdateEntryListData with any other media type decodes nothing.
TypedEntry(op, t, se) ==
    IF op = "UpdateAnimeListStatus" \/ (op = "UpdateEntryListData" /\ t = "anime")
    THEN GetAnimeEntry(se)
    ELSE IF op = "UpdateMangaListStatus" \/ (op = "UpdateEntryListData" /\ t = "manga")
    THEN GetMangaEntry(se)
    ELSE None

\* The error of an update operation whose typed entry is nil.
NilEntryErr(op) ==
    IF op = "UpdateAnimeListStatus" THEN "anime entry not found"
    ELSE IF op = "UpdateMangaListStatus" THEN "manga entry not found"
    ELSE "entry not found"

\* The ListData an update operation writes.
NewListData(op, ld, patch) ==
    IF op = "UpdateEntryListData" THEN ApplyPatch(ld, patch)
    ELSE SetProgressStatus(ld, patch.progress[1], patch.status[1])

\* UpdateEntryListData with any other media type saves the row as it read it.
UpdateEntry_OtherTypeSaves(p) ==
    /\ pc[p] = "upd_entry"
    /\ LET c == calls[frame[p].call]
           row == GetSnapshotMediaEntry(c.mediaId, currentSnapshot[1].DbId)
       IN IF row = None
          THEN UnlockReturn(p, "record not found")
          ELSE IF c.op = "UpdateEntryListData" /\ c.t \notin {"anime", "manga"}
          THEN /\ frame' = [frame EXCEPT ![p].snapshotEntry = row]
               /\ pc' = [pc EXCEPT ![p] = "upd_write"]
               /\ UNCHANGED <<mu, calls>>
          ELSE LET entry == TypedEntry(c.op, c.t, row[1])
               IN IF entry = None
                  THEN UnlockReturn(p, NilEntryErr(c.op))
                  ELSE /\ frame' = [frame EXCEPT ![p].snapshotEntry =
                             Some([row[1] EXCEPT !.Value =
                                 Marshal([entry[1] EXCEPT !.ListData =
                                     NewListData(c.op, entry[1].ListData, c.patch)])])]
                       /\ pc' = [pc EXCEPT ![p] = "upd_write"]
                       /\ UNCHANGED <<mu, calls>>
    /\ UNCHANGED <<isOffline, currentSnapshot, snapshots, entries, now, log>>
    /\ UNCHANGED fetchVars

\* The update reads the row of its media id in the cached snapshot, decodes
\* it, changes the ListData and re-encodes it into the row's Value.
UpdateEntry(p) ==
    /\ pc[p] = "upd_entry"
    /\ LET c == calls[frame[p].call]
           row == GetSnapshotMediaEntry(c.mediaId, currentSnapshot[1].DbId)
       IN IF row = None
          THEN UnlockReturn(p, "record not found")
          ELSE IF c.op = "UpdateEntryListData" /\ c.t \notin {"anime", "manga"}
          THEN /\ pc' = [pc EXCEPT ![p] = "upd_reload"]
               /\ UNCHANGED <<mu, frame, calls>>
          ELSE LET entry == TypedEntry(c.op, c.t, row[1])
               IN IF entry = None
                  THEN UnlockReturn(p, NilEntryErr(c.op))
                  ELSE /\ frame' = [frame EXCEPT ![p].snapshotEntry =
                             Some([row[1] EXCEPT !.Value =
                                 Marshal([entry[1] EXCEPT !.ListData =
                                     NewListData(c.op, entry[1].ListData, c.patch)])])]
                       /\ pc' = [pc EXCEPT ![p] = "upd_write"]
                       /\ UNCHANGED <<mu, calls>>
    /\ UNCHANGED <<isOffline, currentSnapshot, snapshots, entries, now, log>>
    /\ UNCHANGED fetchVars

\* The update saves the row.
UpdateWrite(p) ==
    /\ pc[p] = "upd_write"
    /\ UpdateSnapshotMediaEntryT(frame[p].snapshotEntry[1])
    /\ pc' = [pc EXCEPT ![p] = "upd_reload"]
    /\ UNCHANGED <<isOffline, mu, currentSnapshot, snapshots, frame, calls, log>>
    /\ UNCHANGED fetchVars

\* The update returns nil without reloading the cache.
UpdateReload_KeepsCache(p) ==
    /\ pc[p] = "upd_reload"
    /\ IF GetLatestSnapshot = None
       THEN UnlockReturn(p, "record not found")
       ELSE UnlockReturn(p, NoErr)
    /\ UNCHANGED <<isOffline, currentSnapshot, snapshots, entries, now, log>>
    /\ UNCHANGED fetchVars

\* The update reloads the cache from the store and returns.
UpdateReload(p) ==
    /\ pc[p] = "upd_reload"
    /\ LET ret == GetLatestSnapshot
       IN IF ret = None
          THEN /\ UnlockReturn(p, "record not found")
               /\ UNCHANGED currentSnapshot
          ELSE /\ currentSnapshot' = ret
               /\ UnlockReturn(p, NoErr)
    /\ UNCHANGED <<isOffline, snapshots, entries, now, log>>
    /\ UNCHANGED fetchVars

\* ---------------------------------------------------------------- specification
Next ==
    \E p \in Procs :
        \/ SyncStart(p)
        \/ SyncLoadEntries(p)
        \/ SyncPush(p)
        \/ SyncFinish(p)
        \/ Call(p)
        \/ Lock(p)
        \/ GetCurrentSnapshot(p)
        \/ RetrieveCurrentSnapshot(p)
        \/ UpdateLoad(p)
        \/ UpdateEntry(p)
        \/ UpdateWrite(p)
        \/ UpdateReload(p)

Spec == Init /\ [][Next]_vars

\* ---------------------------------------------------------------- field updates alone
\* The optional arguments of UpdateEntryListData with exactly the fields of
\* given present.
PatchOf(given) == [f \in DOMAIN FullPatch |-> IF f \in given THEN FullPatch[f] ELSE None]

\* Every combination of present and absent optional arguments.
Patches == {PatchOf(given) : given \in SUBSET (DOMAIN FullPatch)}

\* UpdateEntryListData of the anime row as "anime" and of the manga row as
\* "manga", with every combination of arguments.
PatchRequests ==
    {Request("UpdateEntryListData", 100, q, "anime") : q \in Patches}
    \cup {Request("UpdateEntryListData", 200, q, "manga") : q \in Patches}

\* Field updates of a row as the other media type and of a media id the
\* snapshot does not hold, by each of the three operations.
MismatchRequests ==
    { Request("UpdateAnimeListStatus", 200, StatusPatch, ""),
      Request("UpdateAnimeListStatus", 300, StatusPatch, ""),
      Request("UpdateMangaListStatus", 100, StatusPatch, ""),
      Request("UpdateMangaListStatus", 300, StatusPatch, ""),
      Request("UpdateEntryListData", 100, FullPatch, "manga"),
      Request("UpdateEntryListData", 200, FullPatch, "anime"),
      Request("UpdateEntryListData", 300, FullPatch, "anime") }

\* A field update is invoked: the goroutine waits for h.mu.
CallUpdate(p) ==
    /\ CanInvoke(p)
    /\ \E r \in PatchRequests \cup MismatchRequests :
          calls' = Append(calls, NewCall(r.op, p, r.mediaId, r.patch, r.t))
    /\ pc' = [pc EXCEPT ![p] = "lock"]
    /\ frame' = [frame EXCEPT ![p].call = Len(calls) + 1]
    /\ UNCHANGED <<isOffline, mu, currentSnapshot, snapshots, entries, now, log>>
    /\ UNCHANGED fetchVars

\* An online Hub over a snapshot in use, no row edited yet.
InitUpdates ==
    /\ Init
    /\ ~isOffline
    /\ HasSnapshots /\ snapshots[1].Used /\ ~snapshots[1].Synced
    /\ \A k \in DOMAIN entries : entries[k].UpdatedAt = entries[k].CreatedAt
    /\ Unmarshal(entries[<<1, 100>>].Value)[1].ListData.Score = 10

\* One goroutine calls field updates, one call after the other.
NextUpdates ==
    \/ CallUpdate(1)
    \/ Lock(1)
    \/ UpdateLoad(1)
    \/ UpdateEntry(1)
    \/ UpdateWrite(1)
    \/ UpdateReload(1)

SpecUpdates == InitUpdates /\ [][NextUpdates]_vars

\* ---------------------------------------------------------------- the two reads and the pass
\* The number of invocations in a behaviour of the two reads with passes.
MaxReads == 3

ReadRequests ==
    { Request("GetCurrentSnapshot", 0, NoPatch, ""),
      Request("RetrieveCurrentSnapshot", 0, NoPatch, "") }

\* GetCurrentSnapshot or RetrieveCurrentSnapshot is invoked: the goroutine
\* waits for h.mu.
CallRead(p) ==
    /\ pc[p] = "idle"
    /\ Len(calls) < MaxReads
    /\ \E r \in ReadRequests :
          calls' = Append(calls, NewCall(r.op, p, r.mediaId, r.patch, r.t))
    /\ pc' = [pc EXCEPT ![p] = "lock"]
    /\ frame' = [frame EXCEPT ![p].call = Len(calls) + 1]
    /\ UNCHANGED <<isOffline, mu, currentSnapshot, snapshots, entries, now, log>>
    /\ UNCHANGED fetchVars

\* Goroutines call the two reads and SyncListData.
NextReads ==
    \E p \in Procs :
        \/ CallRead(p)
        \/ Lock(p)
        \/ GetCurrentSnapshot(p)
        \/ RetrieveCurrentSnapshot(p)
        \/ SyncStart(p)
        \/ SyncLoadEntries(p)
        \/ SyncPush(p)
        \/ SyncFinish(p)

\* The Hubs of Init over a store without snapshot, over a snapshot never used
\* or marked synced, and over a snapshot in use whose manga row is unedited
\* and whose anime row has score 3.
InitReads ==
    /\ Init
    /\ (HasSnapshots /\ snapshots[1].Used /\ ~snapshots[1].Synced) =>
          /\ entries[<<1, 200>>].UpdatedAt = entries[<<1, 200>>].CreatedAt
          /\ Unmarshal(entries[<<1, 100>>].Value)[1].ListData.Score = 3

SpecReads == InitReads /\ [][NextReads]_vars

\* ---------------------------------------------------------------- passes alone
\* Date strings of stored rows: empty, a timestamp, a date without time of
\* day, the 30th of February, the 29th of February of a leap year, hour 24.
DateInputs ==
    { EmptyString, <<2022, 5, 1, 0, 0, 0>>, <<2022, 5, 1>>, <<2023, 2, 30, 0, 0, 0>>,
      <<2024, 2, 29, 23, 59, 59>>, <<2021, 12, 31, 24, 0, 0>> }

\* A captured row whose Value holds a typed entry ("ok"), a typed entry with a
\* nil ListData ("nolist"), or bytes that do not decode ("corrupt").
SyncRow(mediaId, type, shape, ld, edited) ==
    [InitRow(mediaId, type, ld, edited) EXCEPT !.Value =
        IF shape = "corrupt" THEN <<"">>
        ELSE IF shape = "nolist" THEN Marshal([kind |-> type, ListData |-> None])
        ELSE @]

\* The anime row 100 with each start date, the manga row 200 with each end
\* date, and the anime row 400, which a snapshot may lack.
Rows100 ==
    {SyncRow(100, "anime", "ok", MkListData(1, "CURRENT", 3, d, EmptyString), e) :
        d \in DateInputs, e \in BOOLEAN}
    \cup {SyncRow(100, "anime", shape, MkListData(1, "CURRENT", 3, EmptyString, EmptyString), e) :
        shape \in {"corrupt", "nolist"}, e \in BOOLEAN}
Rows200 ==
    {SyncRow(200, "manga", "ok", MkListData(2, "PAUSED", 7, EmptyString, d), e) :
        d \in DateInputs, e \in BOOLEAN}
    \cup {SyncRow(200, "manga", "corrupt", MkListData(2, "PAUSED", 7, EmptyString, EmptyString), e) :
        e \in BOOLEAN}
Rows400 ==
    { None,
      Some(SyncRow(400, "anime", "ok",
                   MkListData(12, "REPEATING", 10, <<2020, 1, 1, 0, 0, 0>>, EmptyString), TRUE)) }

\* An online Hub over a snapshot in use, not synced, with two or three rows.
InitSync ==
    /\ NoFetches
    /\ mu = 0
    /\ currentSnapshot = None
    /\ now = CapturedAt + 1
    /\ isOffline = FALSE
    /\ snapshots = (1 :> [ID |-> 1, Used |-> TRUE, Synced |-> FALSE])
    /\ \E r1 \in Rows100, r2 \in Rows200, r4 \in Rows400 :
          entries = (<<1, 100>> :> r1) @@ (<<1, 200>> :> r2)
                    @@ (IF r4 = None THEN << >> ELSE (<<1, 400>> :> r4[1]))
    /\ pc = [p \in Procs |-> "idle"]
    /\ frame = [p \in Procs |-> NoFrame]
    /\ calls = <<>>
    /\ log = <<>>

\* One goroutine calls SyncListData, one pass after the other.
NextSync ==
    \/ SyncStart(1)
    \/ SyncLoadEntries(1)
    \/ SyncPush(1)
    \/ SyncFinish(1)

SpecSync == InitSync /\ [][NextSync]_vars

\* ---------------------------------------------------------------- snapshots not synced
\* The Hubs of Init over a store in which no snapshot is marked synced, the
\* anime row of a snapshot in use having score 3.
InitUnsynced ==
    /\ Init
    /\ \A i \in SnapshotIds : ~snapshots[i].Synced
    /\ (HasSnapshots /\ snapshots[1].Used) =>
          Unmarshal(entries[<<1, 100>>].Value)[1].ListData.Score = 3

SpecUnsynced == InitUnsynced /\ [][Next]_vars

\* ---------------------------------------------------------------- fair scheduling
\* The online Hubs of Init over a store without snapshot and over a snapshot
\* in use, not synced, whose anime row is edited and has score 3.
InitFair ==
    /\ Init
    /\ ~isOffline
    /\ HasSnapshots =>
          /\ snapshots[1].Used /\ ~snapshots[1].Synced
          /\ entries[<<1, 100>>].UpdatedAt # entries[<<1, 100>>].CreatedAt
          /\ entries[<<1, 200>>].UpdatedAt = entries[<<1, 200>>].CreatedAt
          /\ Unmarshal(entries[<<1, 100>>].Value)[1].ListData.Score = 3

\* A step of goroutine p inside an operation it has invoked, after h.mu.Lock().
Body(p) ==
    \/ SyncLoadEntries(p)
    \/ SyncPush(p)
    \/ SyncFinish(p)
    \/ GetCurrentSnapshot(p)
    \/ RetrieveCurrentSnapshot(p)
    \/ UpdateLoad(p)
    \/ UpdateEntry(p)
    \/ UpdateWrite(p)
    \/ UpdateReload(p)

\* Every goroutine inside an operation goes on running, the calls of the store
\* and of the remote client return, and a goroutine waiting in h.mu.Lock() is
\* not passed over for ever when the mutex is free again and again.
Fairness ==
    \A p \in Procs : WF_vars(Body(p)) /\ SF_vars(Lock(p))

SpecFair == InitFair /\ [][Next]_vars /\ Fairness

\* ---------------------------------------------------------------- reads and updates around a pass
\* The two reads, a status update of the anime row and a score update of the
\* manga row.
AroundRequests ==
    ReadRequests
    \cup { Request("UpdateAnimeListStatus", 100, StatusPatch, ""),
           Request("UpdateEntryListData", 200, ScorePatch, "manga") }

\* A read or a field update is invoked: the goroutine waits for h.mu.
CallAround(p) ==
    /\ pc[p] = "idle"
    /\ Len(calls) < MaxReads
    /\ \E r \in AroundRequests :
          calls' = Append(calls, NewCall(r.op, p, r.mediaId, r.patch, r.t))
    /\ pc' = [pc EXCEPT ![p] = "lock"]
    /\ frame' = [frame EXCEPT ![p].call = Len(calls) + 1]
    /\ UNCHANGED <<isOffline, mu, currentSnapshot, snapshots, entries, now, log>>
    /\ UNCHANGED fetchVars

\* One goroutine calls reads, field updates and SyncListData, one call after
\* the other.
NextAround ==
    \/ CallAround(1)
    \/ Lock(1)
    \/ GetCurrentSnapshot(1)
    \/ RetrieveCurrentSnapshot(1)
    \/ UpdateLoad(1)
    \/ UpdateEntry(1)
    \/ UpdateWrite(1)
    \/ UpdateReload(1)
    \/ SyncStart(1)
    \/ SyncLoadEntries(1)
    \/ SyncPush(1)
    \/ SyncFinish(1)

SpecAround == InitReads /\ [][NextAround]_vars

\* ---------------------------------------------------------------- other media types
\* Media types that are neither "anime" nor "manga": the empty string, a
\* capitalised "Anime", and "tv".
OtherTypes == {"", "Anime", "tv"}

\* UpdateEntryListData with another media type, of each row and of a media id
\* the snapshot does not hold, and a score update of the anime row as "anime".
OtherRequests ==
    {Request("UpdateEntryListData", m, q, t) :
        m \in {100, 200, 300}, q \in {ScorePatch, FullPatch}, t \in OtherTypes}
    \cup {Request("UpdateEntryListData", 100, ScorePatch, "anime")}

\* UpdateEntryListData is invoked: the goroutine waits for h.mu.
CallOther(p) ==
    /\ CanInvoke(p)
    /\ \E r \in OtherRequests :
          calls' = Append(calls, NewCall(r.op, p, r.mediaId, r.patch, r.t))
    /\ pc' = [pc EXCEPT ![p] = "lock"]
    /\ frame' = [frame EXCEPT ![p].call = Len(calls) + 1]
    /\ UNCHANGED <<isOffline, mu, currentSnapshot, snapshots, entries, now, log>>
    /\ UNCHANGED fetchVars

\* Goroutines call UpdateEntryListData and SyncListData.
NextOther ==
    \E p \in Procs :
        \/ CallOther(p)
        \/ Lock(p)
        \/ UpdateLoad(p)
        \/ UpdateEntry(p)
        \/ UpdateWrite(p)
        \/ UpdateReload(p)
        \/ SyncStart(p)
        \/ SyncLoadEntries(p)
        \/ SyncPush(p)
        \/ SyncFinish(p)

SpecOther == InitFair /\ [][NextOther]_vars

\* ---------------------------------------------------------------- script fetch binding
\* Number of calls of fetch in one behaviour.
MaxFetches == 11

\* How a script calls fetch: without argument; with a URL that is not a
\* string; with options whose conversion to an object throws; with a URL
\* alone or with options without headers; with options that hold headers.
FetchCalls == {"no argument", "url not a string", "options throw", "plain", "headers"}

\* The fetches between fetchSemaphore <- struct{}{} and the deferred
\* <-fetchSemaphore.
PastSemaphore == {"method", "method_headers", "headers", "request", "respond"}

Started == fetches["acquire"] + fetches["acquire_headers"] + fetches["method"]
           + fetches["method_headers"] + fetches["headers"] + fetches["request"]
           + fetches["respond"] + fetches["done"]

\* A fetch goes from one stage to the next.
Move(from, to) == fetches' = [fetches EXCEPT ![from] = @ - 1, ![to] = @ + 1]

\* The goroutine of a fetch at stage from returns or has recovered from a
\* panic: the deferred function takes the element back out of fetchSemaphore.
Exit(from) ==
    /\ Move(from, "done")
    /\ fetchSemaphore' = fetchSemaphore - 1

\* reject(...) followed by return, or a panic recovered by the deferred
\* HandlePanicInModuleThen, which calls reject.
RejectAndExit(from) ==
    /\ rejects' = rejects + 1
    /\ Exit(from)

\* gojaFetch is called. It returns a promise it has rejected, when an
\* argument is missing or wrong or the conversion of the options panics, or
\* it makes a promise and starts the goroutine that is to settle it.
GojaFetch ==
    /\ Started < MaxFetches
    /\ \E a \in FetchCalls :
          IF a \in {"no argument", "url not a string", "options throw"}
          THEN /\ rejects' = rejects + 1
               /\ fetches' = [fetches EXCEPT !["done"] = @ + 1]
          ELSE /\ fetches' = [fetches EXCEPT
                                 ![IF a = "headers" THEN "acquire_headers" ELSE "acquire"] = @ + 1]
               /\ UNCHANGED rejects
    /\ UNCHANGED <<fetchSemaphore, objMu, resolves>>
    /\ UNCHANGED hubVars

\* fetchSemaphore <- struct{}{}: blocks while the channel is full.
Acquire ==
    /\ fetchSemaphore < FetchSlots
    /\ \E k \in {"", "_headers"} :
          /\ fetches["acquire" \o k] > 0
          /\ Move("acquire" \o k, "method" \o k)
    /\ fetchSemaphore' = fetchSemaphore + 1
    /\ UNCHANGED <<objMu, resolves, rejects>>
    /\ UNCHANGED hubVars

\* The method option is read and converted to a string; the conversion runs
\* script code, which may throw: the goroutine panics.
ReadMethod ==
    /\ \E k \in {"", "_headers"}, throws \in BOOLEAN :
          /\ fetches["method" \o k] > 0
          /\ IF throws
             THEN RejectAndExit("method" \o k)
             ELSE /\ Move("method" \o k, IF k = "" THEN "request" ELSE "headers")
                  /\ UNCHANGED <<fetchSemaphore, rejects>>
    /\ UNCHANGED <<objMu, resolves>>
    /\ UNCHANGED hubVars

\* objMu.Lock(); each header value is converted to a string; objMu.Unlock().
\* The conversion runs script code, which may throw: the goroutine panics
\* between Lock and Unlock, and the Unlock, which is not deferred, is not run.
ReadHeaders ==
    /\ fetches["headers"] > 0
    /\ ~objMu
    /\ \E throws \in BOOLEAN :
          IF throws
          THEN /\ objMu' = TRUE
               /\ RejectAndExit("headers")
          ELSE /\ Move("headers", "request")
               /\ UNCHANGED <<objMu, fetchSemaphore, rejects>>
    /\ UNCHANGED resolves
    /\ UNCHANGED hubVars

\* The body option is converted, the request is built and sent and the
\* response is read. The conversion may throw; http.NewRequest, client.Do
\* and io.ReadAll may each return an error.
SendRequest ==
    /\ fetches["request"] > 0
    /\ \E r \in {"body throws", "request error", "transport error", "read error", "ok"} :
          IF r = "ok"
          THEN /\ Move("request", "respond")
               /\ UNCHANGED <<fetchSemaphore, rejects>>
          ELSE RejectAndExit("request")
    /\ UNCHANGED <<objMu, resolves>>
    /\ UNCHANGED hubVars

\* objMu.Lock(); the response object is built; objMu.Unlock(); then
\* resolve(responseObj) under promiseResMu, and the goroutine returns.
Respond ==
    /\ fetches["respond"] > 0
    /\ ~objMu
    /\ resolves' = resolves + 1
    /\ Exit("respond")
    /\ UNCHANGED <<objMu, rejects>>
    /\ UNCHANGED hubVars

\* No Hub beside the scripts.
InitFetch ==
    /\ NoFetches
    /\ isOffline = FALSE
    /\ mu = 0
    /\ currentSnapshot = None
    /\ snapshots = << >>
    /\ entries = << >>
    /\ now = CapturedAt + 1
    /\ pc = [p \in Procs |-> "idle"]
    /\ frame = [p \in Procs |-> NoFrame]
    /\ calls = <<>>
    /\ log = <<>>

NextFetch ==
    \/ GojaFetch
    \/ Acquire
    \/ ReadMethod
    \/ ReadHeaders
    \/ SendRequest
    \/ Respond

\* Every goroutine goes on running and the HTTP calls return; a goroutine
\* blocked on the channel or on a mutex goes on when it can.
FetchFairness ==
    /\ SF_vars(Acquire)
    /\ WF_vars(ReadMethod)
    /\ WF_vars(ReadHeaders)
    /\ WF_vars(SendRequest)
    /\ WF_vars(Respond)

SpecFetch == InitFetch /\ [][NextFetch]_vars /\ FetchFairness

\* ---------------------------------------------------------------- properties
SyncCalls == {c \in 1..Len(calls) : calls[c].op = "SyncListData"}
Returned(c) == calls[c].res # "pending"
InPass(p) == pc[p] \in {"sync_entries", "sync_push"}
InUpdateBody(p) == pc[p] \in {"upd_load", "upd_entry", "upd_write", "upd_reload"}

\* The pushes of pass c, and its other outside effects, in order.
PushLines(c) == SelectSeq(log, LAMBDA l : l.call = c /\ l.kind = "push")
OtherLines(c) == SelectSeq(log, LAMBDA l : l.call = c /\ l.kind # "push")
SomePushFailed(c) ==
    \E i \in 1..Len(log) : log[i].call = c /\ log[i].kind = "push" /\ ~log[i].ok
AllPushesOk(c) ==
    \A i \in 1..Len(log) : log[i].call = c /\ log[i].kind = "push" => log[i].ok

\* The ListData a row holds.
StoredListData(row) == Unmarshal(row.Value)[1].ListData
Modified(row) == row.CreatedAt # row.UpdatedAt

\* C1: a pass never pushes a row it read with CreatedAt = UpdatedAt, and a row
\* of the store that was never edited is never pushed by any pass.
C1_UnmodifiedNeverPushed ==
    /\ \A p \in Procs : pc[p] = "sync_push" =>
          \A i \in 1..Len(frame[p].snapshotEntries) :
             LET se == frame[p].snapshotEntries[i]
             IN se.CreatedAt = se.UpdatedAt =>
                   \A j \in 1..Len(PushLines(frame[p].call)) :
                      PushLines(frame[p].call)[j].mediaId # se.MediaId
    /\ \A k \in DOMAIN entries : ~Modified(entries[k]) =>
          \A j \in 1..Len(log) : ~(log[j].kind = "push" /\ log[j].mediaId = k[2])

\* A pass read one edited and one unedited row and has pushed the edited one.
C1_Witness ==
    \E p \in Procs :
       /\ pc[p] = "sync_push"
       /\ frame[p].idx > Len(frame[p].list)
       /\ Len(frame[p].snapshotEntries) = 2
       /\ \E i \in 1..2 : frame[p].snapshotEntries[i].CreatedAt
                             = frame[p].snapshotEntries[i].UpdatedAt
       /\ Len(PushLines(frame[p].call)) = 1

\* The media id of the last failed push of pass c.
LastFailedPush(c) ==
    LET pl == PushLines(c)
        i == CHOOSE i \in 1..Len(pl) : ~pl[i].ok /\ \A j \in (i + 1)..Len(pl) : pl[j].ok
    IN pl[i].mediaId

\* C2: a pass in which a push failed returns the error of its last failed push.
C2_ReturnsLastPushError ==
    \A c \in SyncCalls :
       Returned(c) /\ SomePushFailed(c) => calls[c].res = PushErr(LastFailedPush(c))

\* C3: a pass in which a push failed does not delete the snapshot, does not
\* call the refresh callback and publishes no event.
C3_FailedPassLeavesSnapshot ==
    \A c \in SyncCalls : SomePushFailed(c) => OtherLines(c) = <<>>

\* The current ListData of a row was delivered by a successful push.
Delivered(row) ==
    \E i \in 1..Len(log) :
       /\ log[i].kind = "push" /\ log[i].ok
       /\ log[i].mediaId = row.MediaId
       /\ log[i].args = <<StoredListData(row).Status, 10 * StoredListData(row).Score,
                          StoredListData(row).Progress,
                          FuzzyDate(StoredListData(row).StartedAt),
                          FuzzyDate(StoredListData(row).CompletedAt)>>

\* C4: a snapshot is deleted only when the current ListData of each of its
\* edited rows was delivered by a successful push.
C4_NoDataLoss ==
    [][SnapshotIds' # SnapshotIds =>
          \A k \in DOMAIN entries : Modified(entries[k]) => Delivered(entries[k])]_vars

\* C5: no field update is inside its body while a synchronization pass is
\* between its start and its return.
C5_PassExcludesUpdates ==
    \A p \in Procs, q \in Procs : InPass(p) => ~InUpdateBody(q)

\* The type of row an update operation asks for.
TargetType(call) ==
    IF call.op = "UpdateAnimeListStatus" THEN "anime"
    ELSE IF call.op = "UpdateMangaListStatus" THEN "manga"
    ELSE call.t

\* Call c is a field update of a row the store holds, of the type it asks for.
UpdatesHeldRow(c) ==
    /\ calls[c].op \in UpdateOps
    /\ \E k \in DOMAIN entries :
          k[2] = calls[c].mediaId /\ entries[k].Type = TargetType(calls[c])

\* Every field the call gave has the given value in ld.
Reflects(call, ld) ==
    /\ call.patch.progress # None => ld.Progress = call.patch.progress[1]
    /\ call.patch.status # None => ld.Status = call.patch.status[1]
    /\ call.patch.score # None => ld.Score = call.patch.score[1]
    /\ call.patch.startDate # None => ld.StartedAt = call.patch.startDate[1]
    /\ call.patch.endDate # None => ld.CompletedAt = call.patch.endDate[1]

\* The update of call c is in the store and in the cached snapshot.
ReflectedEverywhere(c) ==
    /\ \E k \in DOMAIN entries :
          k[2] = calls[c].mediaId /\ Reflects(calls[c], StoredListData(entries[k]))
    /\ currentSnapshot # None
    /\ \E i \in 1..Len(currentSnapshot[1].Entries) :
          /\ currentSnapshot[1].Entries[i].MediaId = calls[c].mediaId
          /\ Reflects(calls[c], StoredListData(currentSnapshot[1].Entries[i]))

\* Calls i and j are two field updates, invoked concurrently (j while i was
\* running), of rows of different media ids the snapshot holds; both have
\* returned and no other update or synchronization pass was invoked.
TwoConcurrentUpdates(i, j) ==
    /\ i < j
    /\ i \in calls[j].during
    /\ UpdatesHeldRow(i) /\ UpdatesHeldRow(j)
    /\ calls[i].mediaId # calls[j].mediaId
    /\ Returned(i) /\ Returned(j)
    /\ \A k \in 1..Len(calls) :
          k \notin {i, j} => calls[k].op \notin UpdateOps \cup {"SyncListData"}

\* C6: two concurrent field updates of different media ids both return nil,
\* and both are then in the store and in the cached snapshot.
C6_ConcurrentUpdatesBothKept ==
    \A i \in 1..Len(calls), j \in 1..Len(calls) :
       TwoConcurrentUpdates(i, j) =>
          /\ calls[i].res = NoErr /\ calls[j].res = NoErr
          /\ ReflectedEverywhere(i) /\ ReflectedEverywhere(j)

\* Two status updates of different media ids were invoked concurrently and
\* have returned.
C6_Witness ==
    \E i \in 1..Len(calls), j \in 1..Len(calls) :
       /\ TwoConcurrentUpdates(i, j)
       /\ calls[i].op = "UpdateAnimeListStatus" /\ calls[j].op = "UpdateMangaListStatus"

\* C7: the score of every push is ten times the score stored in the row the
\* pass read, for stored scores 0..10.
C7_PushedScoreTimesTen ==
    \A p \in Procs : pc[p] = "sync_push" =>
       \A j \in 1..Len(PushLines(frame[p].call)) :
          \E i \in 1..Len(frame[p].list) :
             LET se == frame[p].list[i]
                 line == PushLines(frame[p].call)[j]
             IN /\ se.MediaId = line.mediaId
                /\ StoredListData(se).Score \in 0..10
                /\ line.args[2] = 10 * StoredListData(se).Score

\* A pass has pushed a row with stored score 10 and a row with stored score 7.
C7_Witness ==
    \E p \in Procs :
       /\ pc[p] = "sync_push"
       /\ \E a \in 1..Len(log), b \in 1..Len(log) :
             /\ log[a].call = frame[p].call /\ log[a].kind = "push" /\ log[a].args[2] = 100
             /\ log[b].call = frame[p].call /\ log[b].kind = "push" /\ log[b].args[2] = 70

\* A step of a synchronization pass.
SyncStep == \E p \in Procs : SyncStart(p) \/ SyncLoadEntries(p) \/ SyncPush(p) \/ SyncFinish(p)

\* C8: no step of a pass changes a row that stays in the store, and as long
\* as no field update is invoked every push of a media id carries the same
\* arguments, whichever pass made it.
C8_PassNeverWritesEntries ==
    /\ [][SyncStep => \A k \in DOMAIN entries' : k \in DOMAIN entries /\ entries'[k] = entries[k]]_vars
    /\ []((\A c \in 1..Len(calls) : calls[c].op \notin UpdateOps) =>
            \A a \in 1..Len(log), b \in 1..Len(log) :
               log[a].kind = "push" /\ log[b].kind = "push" /\ log[a].mediaId = log[b].mediaId
                  => log[a].args = log[b].args)

\* Two passes have pushed the same media id, with a score that is not 0.
C8_Witness ==
    \E a \in 1..Len(log), b \in 1..Len(log) :
       /\ log[a].kind = "push" /\ log[b].kind = "push"
       /\ log[a].call # log[b].call
       /\ log[a].mediaId = log[b].mediaId
       /\ log[a].args[2] > 0

\* C9: on an offline Hub every SyncListData has returned nil, no pass is ever
\* under way, nothing was pushed, deleted, refreshed or published, and the
\* snapshot and its rows are still in the store.
C9_OfflineSyncDoesNothing ==
    isOffline =>
       /\ \A c \in SyncCalls : calls[c].res = NoErr
       /\ \A p \in Procs : ~InPass(p)
       /\ log = <<>>
       /\ SnapshotIds = {1}
       /\ DOMAIN entries = {<<1, 100>>, <<1, 200>>}

\* Offline, SyncListData has returned while the store holds an edited row.
C9_Witness ==
    /\ isOffline
    /\ \E c \in SyncCalls : Returned(c)
    /\ \E k \in DOMAIN entries : Modified(entries[k])

\* Pass c had a candidate, every push of it succeeded, and it has returned.
FullSuccess(c) ==
    /\ c \in SyncCalls /\ Returned(c)
    /\ \E i \in 1..Len(log) : log[i].call = c /\ log[i].kind = "push"
    /\ AllPushesOk(c)

\* After its pushes pass c called DeleteSnapshot, then the refresh callback
\* once, then published the anime and the manga event once each.
EffectsInOrder(c) ==
    /\ SelectSeq(log, LAMBDA l : l.call = c) = PushLines(c) \o OtherLines(c)
    /\ Len(OtherLines(c)) = 4
    /\ [i \in 1..4 |-> OtherLines(c)[i].kind]
          = <<"delete", "refresh", "RefreshedAnilistCollection",
              "RefreshedAnilistMangaCollection">>

SnapshotGone(id) ==
    /\ id \notin SnapshotIds
    /\ \A k \in DOMAIN entries : k[1] # id

InSuccession(a, b) ==
    /\ a \in SyncCalls /\ b \in SyncCalls
    /\ b = a + 1
    /\ a \notin calls[b].during

\* Pass c called DeleteSnapshot and the store reported no error.
DeletedBy(c) ==
    \E i \in 1..Len(log) : log[i].call = c /\ log[i].kind = "delete" /\ log[i].ok

PreconditionErrs == {"no snapshot found", "data already synced", "snapshot not used"}

\* The store is as it was when the Hub was built.
StoreAsBuilt ==
    /\ now = CapturedAt + 1
    /\ log = <<>>
    /\ SnapshotIds = {} \/ (SnapshotIds = {1} /\ DOMAIN entries = {<<1, 100>>, <<1, 200>>})

\* C12: on an online Hub a pass returns "no snapshot found" exactly over a
\* store without snapshot, else "data already synced" exactly when the latest
\* snapshot is Synced, else "snapshot not used" exactly when it is not Used;
\* such a pass pushes nothing, deletes nothing, refreshes and publishes
\* nothing, and the store stays as it was.
C12_PreconditionFailures ==
    ~isOffline =>
       /\ \A c \in SyncCalls :
             /\ calls[c].res = "no snapshot found" => SnapshotIds = {}
             /\ calls[c].res = "data already synced" =>
                   HasSnapshots /\ offlineDb_GetLatestSnapshot[1].Synced
             /\ calls[c].res = "snapshot not used" =>
                   /\ HasSnapshots
                   /\ ~offlineDb_GetLatestSnapshot[1].Synced
                   /\ ~offlineDb_GetLatestSnapshot[1].Used
             /\ calls[c].res \in PreconditionErrs =>
                   \A i \in 1..Len(log) : log[i].call # c
       /\ (SnapshotIds = {} /\ \A i \in 1..Len(log) : log[i].kind # "delete") =>
             \A c \in SyncCalls : calls[c].res = "no snapshot found"
       /\ (HasSnapshots /\ offlineDb_GetLatestSnapshot[1].Synced) =>
             \A c \in SyncCalls : calls[c].res = "data already synced"
       /\ (HasSnapshots /\ ~offlineDb_GetLatestSnapshot[1].Synced
                        /\ ~offlineDb_GetLatestSnapshot[1].Used) =>
             \A c \in SyncCalls : calls[c].res = "snapshot not used"
       /\ (\A c \in 1..Len(calls) : c \in SyncCalls /\ calls[c].res \in PreconditionErrs)
             => StoreAsBuilt

\* Two passes over a snapshot never used, with edited rows, have both returned
\* "snapshot not used".
C12_Witness ==
    /\ ~isOffline
    /\ Len(calls) = 2
    /\ \A c \in 1..2 : c \in SyncCalls /\ calls[c].res = "snapshot not used"
    /\ \E k \in DOMAIN entries : Modified(entries[k])

StatusOps == {"UpdateAnimeListStatus", "UpdateMangaListStatus"}

\* In this step goroutine p returns nil from a field update.
UpdateSucceeds(p) ==
    /\ pc[p] = "upd_reload"
    /\ pc'[p] = "idle"
    /\ calls'[frame[p].call].res = NoErr

\* C13: when a status update of media id m returns nil, the cached snapshot
\* holds the same rows as before the call; the row of m has the given Progress
\* and Status and its former Score, StartedAt and CompletedAt, and the
\* ListData of every other row is as before.
C13_StatusUpdateSetsTwoFields ==
    [][\A p \in Procs :
          UpdateSucceeds(p) /\ calls[frame[p].call].op \in StatusOps =>
             LET c == calls[frame[p].call]
                 old == currentSnapshot[1].Entries
                 new == currentSnapshot'[1].Entries
             IN /\ Len(new) = Len(old)
                /\ \E i \in 1..Len(new) : new[i].MediaId = c.mediaId
                /\ \A i \in 1..Len(new) :
                      LET a == StoredListData(old[i])
                          b == StoredListData(new[i])
                      IN /\ new[i].MediaId = old[i].MediaId
                         /\ IF new[i].MediaId = c.mediaId
                            THEN /\ b.Progress = c.patch.progress[1]
                                 /\ b.Status = c.patch.status[1]
                                 /\ b.Score = a.Score
                                 /\ b.StartedAt = a.StartedAt
                                 /\ b.CompletedAt = a.CompletedAt
                            ELSE b = a]_vars

\* UpdateAnimeListStatus(100, 5, "COMPLETED") has returned nil over a row with
\* score 10; the cached snapshot holds the new row of 100 and the row of 200.
C13_Witness ==
    /\ \E c \in 1..Len(calls) :
          /\ calls[c].op = "UpdateAnimeListStatus" /\ calls[c].mediaId = 100
          /\ calls[c].res = NoErr
    /\ currentSnapshot # None
    /\ Len(currentSnapshot[1].Entries) = 2
    /\ StoredListData(currentSnapshot[1].Entries[1])
          = MkListData(5, "COMPLETED", 10, <<2022, 5, 1, 0, 0, 0>>, <<2022, 5, 1>>)
    /\ StoredListData(currentSnapshot[1].Entries[2]).Status = "PAUSED"

\* The optional argument of UpdateEntryListData that sets each ListData field.
ArgumentOf ==
    [Progress |-> "progress", Status |-> "status", Score |-> "score",
     StartedAt |-> "startDate", CompletedAt |-> "endDate"]

\* The row of mediaId in a cached snapshot.
CachedRow(snapshot, mediaId) ==
    snapshot[1].Entries[CHOOSE i \in 1..Len(snapshot[1].Entries) :
                           snapshot[1].Entries[i].MediaId = mediaId]

\* C14: when UpdateEntryListData with media type "anime" or "manga" returns
\* nil, each ListData field of the row whose argument was given holds the
\* given value and each field whose argument was nil holds the value stored
\* before the call, in the store and in the cached snapshot, for every
\* combination of given and nil arguments.
C14_PatchSetsGivenFieldsOnly ==
    [][\A p \in Procs :
          (/\ UpdateSucceeds(p)
           /\ calls[frame[p].call].op = "UpdateEntryListData"
           /\ calls[frame[p].call].t \in {"anime", "manga"}) =>
             LET c == calls[frame[p].call]
                 key == <<currentSnapshot[1].DbId, c.mediaId>>
                 old == StoredListData(CachedRow(currentSnapshot, c.mediaId))
             IN /\ key \in DOMAIN entries'
                /\ \A f \in DOMAIN ArgumentOf :
                      LET given == c.patch[ArgumentOf[f]]
                          expected == IF given # None THEN given[1] ELSE old[f]
                      IN /\ StoredListData(entries'[key])[f] = expected
                         /\ StoredListData(CachedRow(currentSnapshot', c.mediaId))[f]
                               = expected]_vars

\* UpdateEntryListData of the anime row with a score and an end date only has
\* returned nil after a call that had set the status only: the row holds the
\* given score and end date, the status of the first call, and the progress
\* and start date of the snapshot.
C14_Witness ==
    /\ Len(calls) = 2
    /\ calls[1].mediaId = 100 /\ calls[1].patch = PatchOf({"status"})
    /\ calls[2].mediaId = 100 /\ calls[2].patch = PatchOf({"score", "endDate"})
    /\ calls[2].res = NoErr
    /\ StoredListData(entries[<<1, 100>>])
          = MkListData(1, "DROPPED", 4, <<2022, 5, 1, 0, 0, 0>>, <<2024, 2, 30, 0, 0, 0>>)

\* C15: when a field update returns nil the cached snapshot is the store's
\* latest snapshot, rows included; and while the snapshot is in the store and
\* no update is between its write and its reload, the cache, once loaded,
\* equals the store's latest snapshot.
C15_CacheReloadedFromStore ==
    /\ [][\A p \in Procs : UpdateSucceeds(p) =>
             currentSnapshot' # None /\ currentSnapshot' = GetLatestSnapshot']_vars
    /\ []((/\ currentSnapshot # None
           /\ HasSnapshots
           /\ \A p \in Procs : pc[p] # "upd_reload") =>
             currentSnapshot = GetLatestSnapshot)

\* A field update has written a row and returned nil; the cached snapshot
\* holds the row as written.
C15_Witness ==
    /\ \E c \in 1..Len(calls) : calls[c].op \in UpdateOps /\ calls[c].res = NoErr
    /\ \A p \in Procs : pc[p] = "idle"
    /\ currentSnapshot # None
    /\ currentSnapshot = GetLatestSnapshot
    /\ \E i \in 1..Len(currentSnapshot[1].Entries) :
          /\ currentSnapshot[1].Entries[i].UpdatedAt = now
          /\ currentSnapshot[1].Entries[i].UpdatedAt > CapturedAt + 1

\* In this step goroutine p returns from GetCurrentSnapshot.
GetReturns(p) == pc[p] = "get" /\ pc'[p] = "idle"

\* C16: GetCurrentSnapshot leaves the cache and the store as they are, and its
\* result is "not found" exactly when the cache is empty, whatever the store
\* holds.
C16_GetReadsCacheOnly ==
    [][\A p \in Procs : GetReturns(p) =>
          /\ UNCHANGED <<currentSnapshot, snapshots, entries, now, log>>
          /\ (calls'[frame[p].call].res = "not found") <=> (currentSnapshot = None)
          /\ calls'[frame[p].call].res \in {"not found", NoErr}]_vars

\* GetCurrentSnapshot has returned "not found" over a store that holds a
\* snapshot: the cache is still empty.
C16_Witness ==
    /\ \E c \in 1..Len(calls) :
          calls[c].op = "GetCurrentSnapshot" /\ calls[c].res = "not found"
    /\ currentSnapshot = None
    /\ HasSnapshots

\* In this step goroutine p returns from RetrieveCurrentSnapshot.
RetrieveReturns(p) == pc[p] = "retrieve" /\ pc'[p] = "idle"

\* C17: RetrieveCurrentSnapshot returns the cache as it is when it is
\* populated; with an empty cache it loads the store's latest snapshot into
\* the cache and returns it, or returns "not found" and leaves the cache empty
\* when the store holds no snapshot.
C17_RetrieveLoadsOnMiss ==
    [][\A p \in Procs : RetrieveReturns(p) =>
          LET res == calls'[frame[p].call].res
          IN /\ UNCHANGED <<snapshots, entries, now, log>>
             /\ currentSnapshot # None =>
                   currentSnapshot' = currentSnapshot /\ res = NoErr
             /\ currentSnapshot = None /\ HasSnapshots =>
                   /\ currentSnapshot' # None
                   /\ currentSnapshot'[1].DbId \in SnapshotIds
                   /\ \A i \in SnapshotIds : i <= currentSnapshot'[1].DbId
                   /\ currentSnapshot'[1].Entries
                         = GetSnapshotMediaEntries(currentSnapshot'[1].DbId)
                   /\ res = NoErr
             /\ currentSnapshot = None /\ ~HasSnapshots =>
                   currentSnapshot' = None /\ res = "not found"]_vars

\* RetrieveCurrentSnapshot loaded the snapshot, a pass deleted it, and a second
\* RetrieveCurrentSnapshot has returned the cached snapshot.
C17_Witness ==
    /\ Len(calls) = 3
    /\ calls[1].op = "RetrieveCurrentSnapshot" /\ calls[1].res = NoErr
    /\ DeletedBy(2)
    /\ calls[3].op = "RetrieveCurrentSnapshot" /\ calls[3].res = NoErr
    /\ 2 \notin calls[3].during
    /\ currentSnapshot # None
    /\ ~HasSnapshots

\* C18: a field update that finds the cache empty and no snapshot in the
\* store returns "snapshot not found" at once: the cache stays empty, no row
\* is looked up and none is written. A field update finds an empty cache
\* whenever it loads, and returns this error in no other case.
C18_UpdateWithoutSnapshot ==
    /\ [][\A p \in Procs :
             pc[p] = "upd_load" /\ pc'[p] # "upd_load" /\ ~HasSnapshots =>
                /\ calls[frame[p].call].op \in UpdateOps
                /\ calls'[frame[p].call].res = "snapshot not found"
                /\ pc'[p] = "idle"
                /\ currentSnapshot' = None
                /\ UNCHANGED <<snapshots, entries, now, log>>]_vars
    /\ [](\A p \in Procs : pc[p] = "upd_load" => currentSnapshot = None)
    /\ [](\A c \in 1..Len(calls) :
             calls[c].res = "snapshot not found" =>
                calls[c].op \in UpdateOps /\ currentSnapshot = None /\ ~HasSnapshots)

\* Two different field updates have both returned "snapshot not found".
C18_Witness ==
    /\ Len(calls) = 2
    /\ calls[1].op \in UpdateOps /\ calls[2].op \in UpdateOps
    /\ calls[1].op # calls[2].op
    /\ calls[1].res = "snapshot not found" /\ calls[2].res = "snapshot not found"

\* The errors of a field update whose row does not decode to the type asked for.
NilEntryErrs == {"anime entry not found", "manga entry not found", "entry not found"}

\* Call c is a field update, for an anime or a manga entry, of a media id the
\* store has no row for or whose row is of the other type.
UpdatesNoHeldRow(c) ==
    /\ calls[c].op \in UpdateOps
    /\ TargetType(calls[c]) \in {"anime", "manga"}
    /\ ~UpdatesHeldRow(c)

\* Call c has written its row: it is past its write or has returned.
PastWrite(c) ==
    \/ Returned(c)
    \/ \E p \in Procs : frame[p].call = c /\ pc[p] = "upd_reload"

\* C19: a field update of a media id the store has no row for, or whose row
\* does not decode to the type asked for, returns an error, never reaches its
\* write or its reload, and writes nothing: the rows written so far are those
\* of the other field updates, one write each.
C19_MismatchFailsWithoutWrite ==
    /\ \A c \in 1..Len(calls) : UpdatesNoHeldRow(c) =>
          /\ \A p \in Procs : frame[p].call = c => pc[p] \in {"lock", "upd_load", "upd_entry"}
          /\ Returned(c) =>
                IF \E k \in DOMAIN entries : k[2] = calls[c].mediaId
                THEN calls[c].res \in NilEntryErrs
                ELSE calls[c].res \notin {NoErr, "pending"}
    /\ now = CapturedAt + 1
               + Cardinality({c \in 1..Len(calls) : UpdatesHeldRow(c) /\ PastWrite(c)})

\* UpdateAnimeListStatus of the manga row and then UpdateEntryListData of a
\* media id the snapshot does not hold have both returned an error; no row
\* was written.
C19_Witness ==
    /\ Len(calls) = 2
    /\ calls[1].op = "UpdateAnimeListStatus" /\ calls[1].mediaId = 200
    /\ calls[1].res = "anime entry not found"
    /\ calls[2].op = "UpdateEntryListData" /\ calls[2].mediaId = 300
    /\ calls[2].res \notin {NoErr, "pending"}
    /\ \A k \in DOMAIN entries : ~Modified(entries[k])

\* No other pass runs while pass s runs.
NotOverlapped(s) ==
    \A s2 \in SyncCalls \ {s} :
       \/ s2 < s /\ s2 \notin calls[s].during
       \/ s2 > s /\ s \notin calls[s2].during

\* Field update u had returned nil when pass s was invoked on an online Hub;
\* s got past its checks of the snapshot, was not overlapped by another pass,
\* and has returned.
UpdateThenPass(u, s) ==
    /\ calls[u].op \in UpdateOps /\ calls[u].res = NoErr
    /\ s \in SyncCalls /\ u < s /\ u \notin calls[s].during
    /\ ~isOffline
    /\ Returned(s) /\ calls[s].res \notin PreconditionErrs
    /\ NotOverlapped(s)

\* The row of the media id of call u, while in the store, has UpdatedAt after
\* CreatedAt.
RowMarkedEdited(u) ==
    \A k \in DOMAIN entries :
       k[2] = calls[u].mediaId => entries[k].UpdatedAt > entries[k].CreatedAt

\* Pass s pushed the media id of call u.
PushedBy(s, u) ==
    \E i \in 1..Len(PushLines(s)) : PushLines(s)[i].mediaId = calls[u].mediaId

Decodes(se) == EntryByType(se) # None /\ EntryByType(se)[1].ListData # None

\* The rows of a pass to push: modified and decodable, in row order.
Pushable(rows) == SelectSeq(rows, LAMBDA se : Modified(se) /\ Decodes(se))

\* Media id, status and progress of each of these rows, as stored.
ExpectedPushes(rows) ==
    [i \in 1..Len(Pushable(rows)) |->
        <<Pushable(rows)[i].MediaId,
          StoredListData(Pushable(rows)[i]).Status,
          StoredListData(Pushable(rows)[i]).Progress>>]

\* Media id, status and progress of each push of pass c, in order.
ActualPushes(c) ==
    [i \in 1..Len(PushLines(c)) |->
        <<PushLines(c)[i].mediaId, PushLines(c)[i].args[1], PushLines(c)[i].args[3]>>]

\* Pass c got past its checks of the snapshot and has returned.
PassDone(c) ==
    /\ c \in SyncCalls /\ Returned(c)
    /\ ~isOffline
    /\ calls[c].res \notin PreconditionErrs

\* C21: a pass pushes each modified, decodable row exactly once, with the
\* media id, status and progress the row holds: when its loop is over, for the
\* rows it read, and when it has returned, for the rows of the snapshot as
\* long as the snapshot is in the store.
C21_EachCandidatePushedOnce ==
    /\ \A p \in Procs :
          pc[p] = "sync_push" /\ frame[p].idx > Len(frame[p].list) =>
             ActualPushes(frame[p].call) = ExpectedPushes(frame[p].snapshotEntries)
    /\ \A c \in 1..Len(calls) :
          PassDone(c) /\ 1 \in SnapshotIds =>
             ActualPushes(c) = ExpectedPushes(GetSnapshotMediaEntries(1))

\* C22: a pass in which a push failed has still pushed every modified,
\* decodable row of the snapshot when it returns.
C22_FailedPushDoesNotStopPass ==
    \A c \in 1..Len(calls) :
       PassDone(c) /\ SomePushFailed(c) /\ 1 \in SnapshotIds =>
          \A i \in 1..Len(Pushable(GetSnapshotMediaEntries(1))) :
             \E j \in 1..Len(PushLines(c)) :
                PushLines(c)[j].mediaId = Pushable(GetSnapshotMediaEntries(1))[i].MediaId

\* C23: a pass skips a modified row whose typed entry is nil: nothing is
\* pushed for it, the pass does not end in a panic, and it returns nil or the
\* error of its loop.
C23_NilDecodeSkipped ==
    /\ \A c \in SyncCalls : calls[c].res # "panic"
    /\ \A p \in Procs : pc[p] = "sync_push" =>
          \A i \in 1..Len(frame[p].list) :
             (i < frame[p].idx /\ ~Decodes(frame[p].list[i])) =>
                \A j \in 1..Len(PushLines(frame[p].call)) :
                   PushLines(frame[p].call)[j].mediaId # frame[p].list[i].MediaId

\* The store holds the snapshot and none of its rows is modified.
NoRowModified ==
    /\ 1 \in SnapshotIds
    /\ \A k \in DOMAIN entries : ~Modified(entries[k])

\* C24: over a snapshot in use and not synced of which no row has CreatedAt
\* different from UpdatedAt, a pass returns nil and the remote client is not
\* invoked: no pass is in its loop, and no pass has pushed anything.
C24_NoModifiedRowNoPush ==
    NoRowModified =>
       /\ \A p \in Procs : pc[p] # "sync_push"
       /\ \A c \in SyncCalls : Returned(c) => calls[c].res = NoErr
       /\ \A i \in 1..Len(log) : log[i].kind # "push"

\* Two passes have returned over a snapshot with no modified row.
C24_Witness ==
    /\ NoRowModified
    /\ Len(calls) = 2
    /\ \A c \in 1..2 : c \in SyncCalls /\ Returned(c)

\* The date strings of the stored rows that time.Parse(time.RFC3339, _) takes,
\* and the (year, month, day) each gives; every other string gives no date.
ParsedDates ==
    (<<2022, 5, 1, 0, 0, 0>> :> <<2022, 5, 1>>)
    @@ (<<2024, 2, 29, 23, 59, 59>> :> <<2024, 2, 29>>)
    @@ (<<2020, 1, 1, 0, 0, 0>> :> <<2020, 1, 1>>)
DateSent(s) == IF s \in DOMAIN ParsedDates THEN Some(ParsedDates[s]) ELSE None

\* The rows pass p has gone over in its loop that decode.
RowsGoneOver(p) ==
    {i \in 1..Len(frame[p].list) : i < frame[p].idx /\ Decodes(frame[p].list[i])}

\* C25: each row a pass has gone over that decodes was pushed once, with a
\* start date and an end date that are absent when StartedAt, resp.
\* CompletedAt, is empty or does not parse as RFC 3339, and are the year,
\* month and day of the parsed time otherwise.
C25_DatesOfPush ==
    \A p \in Procs : pc[p] = "sync_push" =>
       \A i \in RowsGoneOver(p) :
          LET se == frame[p].list[i]
              lines == SelectSeq(PushLines(frame[p].call), LAMBDA l : l.mediaId = se.MediaId)
          IN /\ Len(lines) = 1
             /\ lines[1].args[4] = DateSent(StoredListData(se).StartedAt)
             /\ lines[1].args[5] = DateSent(StoredListData(se).CompletedAt)

\* A pass has pushed row 100, stored with the start date 2022-05-01T00:00:00Z,
\* with the start date (2022, 5, 1), and row 200, stored with the end date
\* 2023-02-30T00:00:00Z, without an end date.
C25_Witness ==
    \E p \in Procs :
       /\ pc[p] = "sync_push" /\ frame[p].idx = 3
       /\ Len(frame[p].list) >= 2
       /\ Decodes(frame[p].list[1]) /\ Decodes(frame[p].list[2])
       /\ StoredListData(frame[p].list[1]).StartedAt = <<2022, 5, 1, 0, 0, 0>>
       /\ StoredListData(frame[p].list[2]).CompletedAt = <<2023, 2, 30, 0, 0, 0>>
       /\ Len(PushLines(frame[p].call)) = 2
       /\ PushLines(frame[p].call)[1].args[4] = Some(<<2022, 5, 1>>)
       /\ PushLines(frame[p].call)[2].args[5] = None

\* Goroutine p is about to read the rows of a snapshot of which none is modified.
AtUnmodifiedRows(p) ==
    /\ pc[p] = "sync_entries"
    /\ \A i \in 1..Len(GetSnapshotMediaEntries(frame[p].snapshotItem[1].ID)) :
          ~Modified(GetSnapshotMediaEntries(frame[p].snapshotItem[1].ID)[i])

\* C29: a pass that finds no modified row returns nil at that step, and the
\* step leaves the store as it is (the snapshot is not deleted) and has no
\* outside effect: no DeleteSnapshot, no refresh callback, no event.
C29_NoModifiedRowNoEffect ==
    [][\A p \in Procs : AtUnmodifiedRows(p) /\ pc'[p] # pc[p] =>
          /\ pc'[p] = "idle"
          /\ calls'[frame[p].call].res = NoErr
          /\ UNCHANGED <<snapshots, entries, log, currentSnapshot>>]_vars

\* A pass has returned nil over a snapshot with no modified row; the snapshot
\* is in the store and nothing was logged.
C29_Witness ==
    /\ NoRowModified
    /\ \E c \in SyncCalls : calls[c].res = NoErr
    /\ log = <<>>

\* Pass c called DeleteSnapshot and the store reported an error.
DeleteFailedIn(c) ==
    \E i \in 1..Len(log) : log[i].call = c /\ log[i].kind = "delete" /\ ~log[i].ok

\* Media id and arguments of each push of pass c, in order.
PushesOf(c) ==
    [i \in 1..Len(PushLines(c)) |-> <<PushLines(c)[i].mediaId, PushLines(c)[i].args>>]

\* C30: a pass whose pushes all succeeded and whose DeleteSnapshot failed
\* returns nil after the refresh callback and the two events; the snapshot
\* stays in the store as long as no pass deletes it, and the pass that follows
\* pushes the same rows with the same arguments.
C30_DeleteFailureIgnored ==
    \A c \in 1..Len(calls) : FullSuccess(c) /\ DeleteFailedIn(c) =>
       /\ calls[c].res = NoErr
       /\ EffectsInOrder(c)
       /\ (\A b \in SyncCalls : ~DeletedBy(b)) =>
             /\ 1 \in SnapshotIds
             /\ \A i \in 1..Len(PushLines(c)) : <<1, PushLines(c)[i].mediaId>> \in DOMAIN entries
       /\ \A b \in 1..Len(calls) :
             /\ InSuccession(c, b) /\ Returned(b) => PushesOf(b) = PushesOf(c)
             /\ InSuccession(c, b) => calls[b].res \notin PreconditionErrs

\* A pass pushed two rows and its DeleteSnapshot failed; the pass after it has
\* pushed two rows and returned.
C30_Witness ==
    \E c \in 1..Len(calls), b \in 1..Len(calls) :
       /\ FullSuccess(c) /\ DeleteFailedIn(c)
       /\ InSuccession(c, b) /\ Returned(b)
       /\ Len(PushLines(c)) = 2 /\ Len(PushLines(b)) = 2

\* C26: over a store whose snapshots are not marked synced, no snapshot of
\* the store and no cached snapshot is ever marked synced, and no pass returns
\* "data already synced".
C26_SyncedStaysFalse ==
    /\ \A i \in SnapshotIds : ~snapshots[i].Synced
    /\ currentSnapshot # None => ~currentSnapshot[1].Synced
    /\ \A p \in Procs : frame[p].snapshotItem # None => ~frame[p].snapshotItem[1].Synced
    /\ \A c \in SyncCalls : calls[c].res # "data already synced"

\* A field update wrote a row, a pass then went through its loop with a
\* failed push and returned, and a second pass has got past its checks of the
\* snapshot, which is still in the store.
C26_Witness ==
    /\ Len(calls) = 2
    /\ calls[1].op \in UpdateOps /\ calls[1].res = NoErr
    /\ 2 \in SyncCalls /\ Returned(2) /\ SomePushFailed(2)
    /\ HasSnapshots /\ currentSnapshot # None

\* The positions of a goroutine between h.mu.Lock() and the return.
LockedBody == {"get", "retrieve", "upd_load", "upd_entry", "upd_write", "upd_reload"}

\* C27: h.mu is held only by a goroutine inside the body of a locked
\* operation, so every return has released it, and under fair scheduling a
\* goroutine waiting in h.mu.Lock() comes to hold the mutex.
C27_LockReleasedAndAcquired ==
    /\ [](\A p \in Procs : pc[p] \notin LockedBody => mu # p)
    /\ [](mu # 0 => pc[mu] \in LockedBody)
    /\ \A p \in Procs : (pc[p] = "lock") ~> (mu = p)

\* A goroutine holds h.mu inside an operation it invoked while a locked
\* operation of the other goroutine was under way, which has since returned
\* an error.
C27_Witness ==
    \E p \in Procs :
       /\ mu = p /\ pc[p] \in LockedBody
       /\ \E c \in calls[frame[p].call].during :
             /\ calls[c].op \in UpdateOps \cup {"GetCurrentSnapshot", "RetrieveCurrentSnapshot"}
             /\ calls[c].res \notin {"pending", NoErr}

\* A step of SyncListData: its invocation, or a step of a goroutine inside it.
PassStep ==
    \E p \in Procs :
       \/ InPass(p) /\ <<pc[p], frame[p]>>' # <<pc[p], frame[p]>>
       \/ /\ pc[p] = "idle"
          /\ Len(calls') = Len(calls) + 1
          /\ calls'[Len(calls')].op = "SyncListData"

\* Call b was invoked after a pass that deleted the snapshot had returned.
AfterDeletingPass(b) ==
    \E a \in SyncCalls : a < b /\ DeletedBy(a) /\ a \notin calls[b].during

\* C28: no step of SyncListData changes the cached snapshot. With a snapshot
\* cached, once a pass has deleted the snapshot from the store the cache holds
\* the id of a snapshot the store no longer has: the reads invoked after the
\* pass return the cached snapshot, and the field updates look their row up
\* under that id, find none and write nothing.
C28_PassKeepsCache ==
    /\ [][PassStep => UNCHANGED currentSnapshot]_vars
    /\ [](\A b \in 1..Len(calls) :
            AfterDeletingPass(b) /\ Returned(b) /\ currentSnapshot # None =>
               /\ currentSnapshot[1].DbId \notin SnapshotIds
               /\ calls[b].op \in {"GetCurrentSnapshot", "RetrieveCurrentSnapshot"} =>
                     calls[b].res = NoErr
               /\ calls[b].op \in UpdateOps =>
                     calls[b].res = "record not found" /\ entries = << >>)

\* A read loaded the cache, a pass deleted the snapshot, and a field update
\* invoked after it has returned "record not found" with the deleted
\* snapshot still cached.
C28_Witness ==
    /\ Len(calls) = 3
    /\ calls[1].op = "RetrieveCurrentSnapshot" /\ calls[1].res = NoErr
    /\ 2 \in SyncCalls /\ DeletedBy(2)
    /\ calls[3].op \in UpdateOps /\ calls[3].res = "record not found"
    /\ currentSnapshot # None /\ currentSnapshot[1].DbId \notin SnapshotIds

\* Goroutine p is inside UpdateEntryListData called with a media type that is
\* neither "anime" nor "manga".
InOtherTypeUpdate(p) ==
    /\ pc[p] \in LockedBody
    /\ calls[frame[p].call].op = "UpdateEntryListData"
    /\ calls[frame[p].call].t \notin {"anime", "manga"}

\* The store holds a row of the media id of p's call under the cached snapshot.
RowHeld(p) ==
    /\ currentSnapshot # None
    /\ <<currentSnapshot[1].DbId, calls[frame[p].call].mediaId>> \in DOMAIN entries

\* C31: no step of UpdateEntryListData called with a media type other than
\* "anime" or "manga" changes the store; when the store holds the row of the
\* media id the operation goes on from the lookup to the reload without a
\* write, and with the snapshot in the store the reload sets the cache to the
\* latest snapshot and the operation returns nil.
C31_OtherTypeWritesNothing ==
    [][\A p \in Procs : InOtherTypeUpdate(p) /\ pc'[p] # pc[p] =>
          /\ UNCHANGED <<snapshots, entries, now, log>>
          /\ pc[p] = "upd_entry" /\ RowHeld(p) => pc'[p] = "upd_reload"
          /\ pc[p] # "upd_write" /\ pc'[p] # "upd_write"
          /\ pc[p] = "upd_reload" /\ HasSnapshots =>
                /\ pc'[p] = "idle"
                /\ calls'[frame[p].call].res = NoErr
                /\ currentSnapshot' = GetLatestSnapshot']_vars

\* UpdateEntryListData of the manga row with every field given and the media
\* type "Anime" has returned nil after the other goroutine's score update of
\* the anime row; the manga row is as captured and the cache holds the store's
\* snapshot.
C31_Witness ==
    /\ Len(calls) = 2
    /\ calls[1].t = "anime" /\ calls[1].res = NoErr
    /\ calls[2].t = "Anime" /\ calls[2].mediaId = 200 /\ calls[2].patch = FullPatch
    /\ calls[2].res = NoErr /\ 1 \in calls[2].during
    /\ entries[<<1, 200>>].UpdatedAt = entries[<<1, 200>>].CreatedAt
    /\ entries[<<1, 100>>].UpdatedAt > CapturedAt + 1
    /\ currentSnapshot = GetLatestSnapshot

\* The fetches whose goroutine has been started and has not exited.
InFlight == Started - fetches["done"]

\* The fetches that hold a slot.
Running ==
    fetches["method"] + fetches["method_headers"] + fetches["headers"]
    + fetches["request"] + fetches["respond"]

\* C32: at most FetchSlots fetches are past the semaphore; the channel holds
\* one element for each of them, so each exit has released its slot; every
\* fetch that is done was settled by one resolve or one reject; and whenever
\* fetches are under way, there comes a time when all of them are done.
C32_FetchesBoundedAndSettled ==
    /\ [](Running <= FetchSlots /\ fetchSemaphore = Running)
    /\ [](resolves + rejects = fetches["done"])
    /\ (InFlight > 0) ~> (InFlight = 0)

====
